---- MODULE Spec2Model ----
(***************************************************************************)
(* A model of pii_scanner.py: main, check_ollama_server, process_file,     *)
(* scan_chunk_with_llm and extract_non_null_data.                          *)
(*                                                                         *)
(* Text is modelled as a sequence of one-character strings, so that        *)
(* endswith, splitext, lower, strip, join, split and the substring test    *)
(* are computed, not assumed.  A table is known to the pipeline by its     *)
(* number of rows; a chunk is the range of table rows that iloc selects.   *)
(* The environment (directory, file contents, HTTP outcomes) is chosen     *)
(* nondeterministically at the step that reads it.                         *)
(***************************************************************************)
EXTENDS Integers, Sequences, FiniteSets

VARIABLES
    pc,         \* position of the single thread of control
    dirExists,  \* os.path.exists(DATA_FOLDER)
    listing,    \* os.listdir(DATA_FOLDER), in the order the OS gives
    probe,      \* outcome of check_ollama_server: "none", "ok", "fail"
    files,      \* main's filtered list
    fidx,       \* number of files main's loop has taken
    opened,     \* paths process_file has been called with, in order
    path,       \* file_path of the current process_file call
    content,    \* what is on disk at path (read by the loader)
    fileStatus, \* "none", "running", "completed", "unsupported", "error"
    df,         \* len(df) of the current table, -1 before it is loaded
    i,          \* loop variable of the chunk loop
    chunks,     \* chunks passed to scan_chunk_with_llm for the current file
    out,        \* lines printed (and mirrored to the log) for the current file
    log,        \* run-level and file-level entries of pii_scanner.log
    attempt,    \* loop variable of the retry loop
    posts,      \* POSTs sent by the current scan_chunk_with_llm call
    sleeps,     \* arguments of time.sleep in the current call, in order
    outcomes,   \* what each POST of the current call met
    result,     \* value returned by the current call
    exc,        \* exception travelling to process_file's handler
    stage,      \* position of the flattening round trip
    chunk1,     \* the chunk given to the flattener
    flat1,      \* extract_non_null_data(chunk1)
    text1,      \* " ".join(flat1)
    chunk2,     \* text1.split(" ") as single-column rows
    flat2,      \* extract_non_null_data(chunk2)
    text2       \* " ".join(flat2)

pipeVars == <<pc, dirExists, listing, probe, files, fidx, opened, path, content,
              fileStatus, df, i, chunks, out, log, attempt, posts, sleeps,
              outcomes, result, exc>>
flatVars == <<stage, chunk1, flat1, text1, chunk2, flat2, text2>>
vars == <<pipeVars, flatVars>>

----------------------------------------------------------------------------
(* Bounds of the model *)

MaxFiles == 2
MaxFullChunks == 2
MaxFlatCells == 2

----------------------------------------------------------------------------
(* Program constants *)

CHUNK_SIZE == 1000
Retries == 5
Delay == 5

DATA_FOLDER == <<"D", "a", "t", "a">>
ExtCsv == <<".", "c", "s", "v">>
ExtXls == <<".", "x", "l", "s">>
ExtXlsx == <<".", "x", "l", "s", "x">>

\* The marker process_file looks for in a Verdict.
Marker == <<"N", "o", " ", "P", "I", "I", " ", "d", "e", "t", "e", "c", "t", "e", "d">>

\* The empty values extract_non_null_data filters out.
Sentinels == {<<>>, <<"n", "a", "n">>, <<"N", "a", "N">>, <<"N", "A", "N">>}

----------------------------------------------------------------------------
(* Text helpers *)

Min(a, b) == IF a < b THEN a ELSE b

\* s.endswith(suf)
EndsWith(s, suf) ==
    /\ Len(s) >= Len(suf)
    /\ SubSeq(s, Len(s) - Len(suf) + 1, Len(s)) = suf

\* m in s
Contains(s, m) ==
    \E k \in 0..(Len(s) - Len(m)) : SubSeq(s, k + 1, k + Len(m)) = m

LastIndexOf(s, c) ==
    LET hits == {k \in 1..Len(s) : s[k] = c}
    IN  IF hits = {} THEN 0 ELSE CHOOSE k \in hits : \A h \in hits : h <= k

\* os.path.join(DATA_FOLDER, name)
JoinPath(dir, name) == dir \o <<"/">> \o name

\* os.path.splitext(p)[1]: the suffix from the last dot, if that dot follows
\* the last separator and a character other than a dot stands between them.
SplitExt(p) ==
    LET sep == LastIndexOf(p, "/")
        dot == LastIndexOf(p, ".")
    IN  IF dot > sep /\ \E k \in (sep + 1)..(dot - 1) : p[k] # "."
        THEN SubSeq(p, dot, Len(p))
        ELSE <<>>

LowerChar(c) ==
    CASE c = "C" -> "c"
      [] c = "S" -> "s"
      [] c = "V" -> "v"
      [] c = "X" -> "x"
      [] c = "L" -> "l"
      [] c = "D" -> "d"
      [] OTHER -> c

\* s.lower()
Lower(s) == [k \in 1..Len(s) |-> LowerChar(s[k])]

----------------------------------------------------------------------------
(* The environment *)

Names ==
    { <<"a">> \o ExtCsv,
      <<"b">> \o ExtXlsx,
      <<"c">> \o ExtXls,
      ExtCsv,
      <<"d", ".", "t", "x", "t">> }

Listings ==
    UNION { { s \in [1..n -> Names] : \A j, k \in 1..n : j # k => s[j] # s[k] }
            : n \in 0..MaxFiles }

\* Number of text lines (or sheet rows) of a readable file; the first line
\* is the header line, the others are data rows.
LineCounts ==
    {0, 1, 1 + 1500}
      \cup { k * CHUNK_SIZE + d + 1 : k \in 0..MaxFullChunks, d \in {0, 1, 2} }

Contents ==
    { [malformed |-> TRUE, lines |-> 0] }
      \cup { [malformed |-> FALSE, lines |-> n] : n \in LineCounts }

NoContent == [malformed |-> FALSE, lines |-> 0]

VClean == Marker \o <<".">>
VFlagged == <<"S", "S", "N">>
VMixed == <<"x", " ">> \o Marker
VEmpty == <<>>
Verdicts == {VClean, VFlagged, VMixed, VEmpty}

\* Bodies of an HTTP response: a JSON object with or without a "response"
\* field, JSON that is no object, or text that is no JSON.
Bodies ==
    { [json |-> "object", has |-> TRUE, response |-> v] : v \in Verdicts }
      \cup { [json |-> "object", has |-> FALSE, response |-> <<>>],
             [json |-> "array", has |-> FALSE, response |-> <<>>],
             [json |-> "invalid", has |-> FALSE, response |-> <<>>] }

NoBody == [json |-> "invalid", has |-> FALSE, response |-> <<>>]

Transport == [kind |-> "transport", status |-> 0, body |-> NoBody]

\* What a requests.get / requests.post can meet.
GetOutcomes ==
    { Transport,
      [kind |-> "http", status |-> 200, body |-> NoBody],
      [kind |-> "http", status |-> 500, body |-> NoBody] }

PostOutcomes ==
    { Transport, [kind |-> "http", status |-> 500, body |-> NoBody] }
      \cup { [kind |-> "http", status |-> 200, body |-> b] : b \in Bodies }

None == [present |-> FALSE, text |-> <<>>]
Some(t) == [present |-> TRUE, text |-> t]

\* Python truth of an Optional[str]
Truthy(r) == r.present /\ r.text # <<>>

----------------------------------------------------------------------------
(* main *)

MissingFolder == ~dirExists

MainDirCheck ==
    /\ pc = "main"
    /\ IF MissingFolder
       THEN /\ log' = Append(log, [level |-> "error", event |-> "no_folder", path |-> <<>>])
            /\ pc' = "done"
       ELSE /\ log' = log
            /\ pc' = "probe"
    /\ UNCHANGED <<dirExists, listing, probe, files, fidx, opened, path, content,
                   fileStatus, df, i, chunks, out, attempt, posts, sleeps,
                   outcomes, result, exc, flatVars>>

\* check_ollama_server: True exactly on a response with status 200
check_ollama_server(o) == o.kind = "http" /\ o.status = 200

\* a main that logs the failed probe and goes on
ProbeNeverAborts(ok) == FALSE

\* if not check_ollama_server(): ... return
ProbeAbortsRun(ok) == ~ok

MainProbe(o) ==
    /\ pc = "probe"
    /\ LET ok == check_ollama_server(o)
       IN  /\ probe' = IF ok THEN "ok" ELSE "fail"
           /\ IF ProbeAbortsRun(ok)
              THEN /\ log' = Append(log, [level |-> "error", event |-> "server_down", path |-> <<>>])
                   /\ pc' = "done"
              ELSE /\ log' = log
                   /\ pc' = "list"
    /\ UNCHANGED <<dirExists, listing, files, fidx, opened, path, content,
                   fileStatus, df, i, chunks, out, attempt, posts, sleeps,
                   outcomes, result, exc, flatVars>>

Supported(f) == EndsWith(f, ExtCsv) \/ EndsWith(f, ExtXls) \/ EndsWith(f, ExtXlsx)

MainList ==
    /\ pc = "list"
    /\ files' = SelectSeq(listing, Supported)
    /\ IF files' = <<>>
       THEN /\ log' = Append(log, [level |-> "info", event |-> "no_datasets", path |-> <<>>])
            /\ pc' = "done"
       ELSE /\ log' = log
            /\ pc' = "file_loop"
    /\ UNCHANGED <<dirExists, listing, probe, fidx, opened, path, content,
                   fileStatus, df, i, chunks, out, attempt, posts, sleeps,
                   outcomes, result, exc, flatVars>>

\* for file in files: process_file(os.path.join(DATA_FOLDER, file))
MainFileLoop ==
    /\ pc = "file_loop"
    /\ IF fidx < Len(files)
       THEN /\ fidx' = fidx + 1
            /\ path' = JoinPath(DATA_FOLDER, files[fidx + 1])
            /\ opened' = Append(opened, path')
            /\ fileStatus' = "running"
            /\ df' = -1
            /\ i' = 0
            /\ chunks' = <<>>
            /\ out' = <<>>
            /\ content' = NoContent
            /\ pc' = "load"
       ELSE /\ pc' = "done"
            /\ UNCHANGED <<fidx, path, opened, fileStatus, df, i, chunks, out, content>>
    /\ UNCHANGED <<dirExists, listing, probe, files, log, attempt, posts, sleeps,
                   outcomes, result, exc, flatVars>>

----------------------------------------------------------------------------
(* process_file: the loader *)

\* skiprows=1 of read_csv / read_excel
SkipRows == 1
\* header=0, the parsers' default: the first line kept names the columns
HeaderLines == 1

IsCsv(ext) == ext = ExtCsv
IsExcel(ext) == ext \in {ExtXls, ExtXlsx}

\* Lines left to the parser after the skipped ones.
LinesRead(c) == IF c.lines > SkipRows THEN c.lines - SkipRows ELSE 0

\* read_csv raises on unreadable content and when no line is left to name
\* the columns; read_excel raises on unreadable content only (a sheet with
\* nothing left gives an empty table).
LoaderRaises(ext, c) ==
    \/ c.malformed
    \/ IsCsv(ext) /\ LinesRead(c) < HeaderLines

\* len(df)
LoadedRows(c) ==
    IF LinesRead(c) > HeaderLines THEN LinesRead(c) - HeaderLines ELSE 0

\* Table row r is the line of the file at this offset from its first data row
\* (the lines after the header line of the file, counted from 0).
FileDataRow(r) == r + SkipRows + HeaderLines - 1

ProcessFileLoad(c) ==
    /\ pc = "load"
    /\ LET ext == Lower(SplitExt(path))
       IN  IF IsCsv(ext) \/ IsExcel(ext)
           THEN /\ content' = c
                /\ IF LoaderRaises(ext, c)
                   THEN /\ exc' = "parse"
                        /\ pc' = "except"
                        /\ UNCHANGED <<df, log, out, fileStatus>>
                   ELSE /\ df' = LoadedRows(c)
                        /\ log' = Append(log, [level |-> "info", event |-> "processing", path |-> path])
                        /\ out' = <<[kind |-> "prompt", first |-> 0,
                                     last |-> CHUNK_SIZE - 1, text |-> <<>>]>>
                        /\ pc' = "chunk_loop"
                        /\ UNCHANGED <<exc, fileStatus>>
           ELSE /\ log' = Append(log, [level |-> "warning", event |-> "unsupported", path |-> path])
                /\ fileStatus' = "unsupported"
                /\ pc' = "file_loop"
                /\ UNCHANGED <<content, df, out, exc>>
    /\ UNCHANGED <<dirExists, listing, probe, files, fidx, opened, path, i,
                   chunks, attempt, posts, sleeps, outcomes, result, flatVars>>

----------------------------------------------------------------------------
(* process_file: the chunk loop *)

\* range(0, len(df), CHUNK_SIZE) has an element at position k
RangeHasNext(k, n) == k < n

\* the step of that range
RangeStep == CHUNK_SIZE

\* a slice that is not clipped to the table
IlocUnclipped(n, lo, hi) == [first |-> lo, last |-> hi - 1]

\* df.iloc[lo : hi] of a table of n rows, as the rows it holds
Iloc(n, lo, hi) == [first |-> Min(lo, n), last |-> Min(hi, n) - 1]

ChunkLoop ==
    /\ pc = "chunk_loop"
    /\ IF RangeHasNext(i, df)
       THEN /\ chunks' = Append(chunks, Iloc(df, i, i + CHUNK_SIZE))
            /\ pc' = "attempt"
            /\ UNCHANGED fileStatus
       ELSE /\ fileStatus' = "completed"
            /\ pc' = "file_loop"
            /\ UNCHANGED chunks
    /\ UNCHANGED <<dirExists, listing, probe, files, fidx, opened, path, content,
                   df, i, out, log, attempt, posts, sleeps, outcomes, result,
                   exc, flatVars>>

----------------------------------------------------------------------------
(* scan_chunk_with_llm: one pass of the retry loop *)

\* json.loads(response.text).get("response", "") raises when the text is no
\* JSON and when the JSON is no object.
ParseRaises(b) == b.json # "object"
ResponseField(b) == IF b.has THEN b.response ELSE <<>>

StatusOK(status) == status = 200

\* a handler that also takes an error status for a failure to retry
RetriedOnStatus(o) == o.kind = "transport" \/ (o.kind = "http" /\ o.status # 200)

\* except requests.exceptions.RequestException: what the handler catches
Retried(o) == o.kind = "transport"

\* if attempt < retries - 1
SleepsAfter(a) == a < Retries - 1

\* a delay that doubles with every pass
BackoffDoubling(a) == Delay * (2 ^ a)

\* delay * (attempt + 1)
Backoff(a) == Delay * (a + 1)

\* for attempt in range(retries): there is a next pass after pass a
LoopGoesOn(a) == a + 1 < Retries

\* Leaving the loop without a return gives None.
Attempt(o) ==
    /\ pc = "attempt"
    /\ posts' = posts + 1
    /\ outcomes' = Append(outcomes, o)
    /\ IF Retried(o)
       THEN IF SleepsAfter(attempt)
            THEN /\ sleeps' = Append(sleeps, Backoff(attempt))
                 /\ IF LoopGoesOn(attempt)
                    THEN /\ attempt' = attempt + 1
                         /\ UNCHANGED <<pc, result, exc>>
                    ELSE /\ result' = None
                         /\ pc' = "report"
                         /\ UNCHANGED <<attempt, exc>>
            ELSE /\ result' = None
                 /\ pc' = "report"
                 /\ UNCHANGED <<sleeps, attempt, exc>>
       ELSE IF o.kind = "http" /\ StatusOK(o.status)
            THEN IF ParseRaises(o.body)
                 THEN /\ exc' = "response"
                      /\ pc' = "except"
                      /\ UNCHANGED <<sleeps, attempt, result>>
                 ELSE /\ result' = Some(ResponseField(o.body))
                      /\ pc' = "report"
                      /\ UNCHANGED <<sleeps, attempt, exc>>
            ELSE /\ result' = None
                 /\ pc' = "report"
                 /\ UNCHANGED <<sleeps, attempt, exc>>
    /\ UNCHANGED <<dirExists, listing, probe, files, fidx, opened, path, content,
                   fileStatus, df, i, chunks, out, log, flatVars>>

----------------------------------------------------------------------------
(* process_file: the reporter, and the handler of the whole function *)

\* the last row number the clean and flagged lines show
ShownLast(k) == k + CHUNK_SIZE - 1

\* if result:
Reported(r) == Truthy(r)

ReportLine(r, k) ==
    IF Contains(r.text, Marker)
    THEN [kind |-> "clean", first |-> k, last |-> ShownLast(k), text |-> <<>>]
    ELSE [kind |-> "flagged", first |-> k, last |-> ShownLast(k), text |-> r.text]

Report ==
    /\ pc = "report"
    /\ out' = IF Reported(result) THEN Append(out, ReportLine(result, i)) ELSE out
    /\ i' = i + RangeStep
    /\ attempt' = 0
    /\ posts' = 0
    /\ sleeps' = <<>>
    /\ outcomes' = <<>>
    /\ result' = None
    /\ pc' = "chunk_loop"
    /\ UNCHANGED <<dirExists, listing, probe, files, fidx, opened, path, content,
                   fileStatus, df, chunks, log, exc, flatVars>>

\* except Exception as e: logging.error(...)
Except ==
    /\ pc = "except"
    /\ log' = Append(log, [level |-> "error", event |-> "error_processing", path |-> path])
    /\ fileStatus' = "error"
    /\ exc' = "none"
    /\ attempt' = 0
    /\ posts' = 0
    /\ sleeps' = <<>>
    /\ outcomes' = <<>>
    /\ result' = None
    /\ pc' = "file_loop"
    /\ UNCHANGED <<dirExists, listing, probe, files, fidx, opened, path, content,
                   df, i, chunks, out, flatVars>>

----------------------------------------------------------------------------
(* The run of main *)

FlatIdle ==
    /\ stage = "off"
    /\ chunk1 = <<>>
    /\ flat1 = <<>>
    /\ text1 = <<>>
    /\ chunk2 = <<>>
    /\ flat2 = <<>>
    /\ text2 = <<>>

PipeStart ==
    /\ probe = "none"
    /\ files = <<>>
    /\ fidx = 0
    /\ opened = <<>>
    /\ path = <<>>
    /\ content = NoContent
    /\ fileStatus = "none"
    /\ df = -1
    /\ i = 0
    /\ chunks = <<>>
    /\ out = <<>>
    /\ log = <<>>
    /\ attempt = 0
    /\ posts = 0
    /\ sleeps = <<>>
    /\ outcomes = <<>>
    /\ result = None
    /\ exc = "none"

Init ==
    /\ pc = "main"
    /\ dirExists \in BOOLEAN
    /\ listing \in (IF dirExists THEN Listings ELSE {<<>>})
    /\ PipeStart
    /\ FlatIdle

Next ==
    \/ MainDirCheck
    \/ \E o \in GetOutcomes : MainProbe(o)
    \/ MainList
    \/ MainFileLoop
    \/ \E c \in Contents : ProcessFileLoad(c)
    \/ ChunkLoop
    \/ \E o \in PostOutcomes : Attempt(o)
    \/ Report
    \/ Except

Spec == Init /\ [][Next]_vars

----------------------------------------------------------------------------
(* extract_non_null_data and the space join *)

Whitespace == {" ", "\t", "\n"}

\* s.strip()
Strip(s) ==
    LET solid == {k \in 1..Len(s) : s[k] \notin Whitespace}
    IN  IF solid = {}
        THEN <<>>
        ELSE SubSeq(s, CHOOSE a \in solid : \A k \in solid : a <= k,
                       CHOOSE b \in solid : \A k \in solid : k <= b)

NullCell == [null |-> TRUE, s |-> <<>>]
StrCell(t) == [null |-> FALSE, s |-> t]

\* pd.notna(value) and value not in [None, "", "nan", "NaN", "NAN"]
Survives(v) == ~v.null /\ v.s \notin Sentinels

\* str(value).strip(); str of a string is that string
Emitted(v) == Strip(v.s)

RECURSIVE RowValues(_)
RowValues(row) ==
    IF row = <<>>
    THEN <<>>
    ELSE (IF Survives(Head(row)) THEN <<Emitted(Head(row))>> ELSE <<>>)
           \o RowValues(Tail(row))

\* rows in order, the values of a row in column order
RECURSIVE extract_non_null_data(_)
extract_non_null_data(chunk) ==
    IF chunk = <<>>
    THEN <<>>
    ELSE RowValues(Head(chunk)) \o extract_non_null_data(Tail(chunk))

\* " ".join(values)
RECURSIVE JoinSpace(_)
JoinSpace(values) ==
    IF values = <<>> THEN <<>>
    ELSE IF Len(values) = 1 THEN Head(values)
    ELSE Head(values) \o <<" ">> \o JoinSpace(Tail(values))

\* text.split(" ")
RECURSIVE SplitSpace(_)
SplitSpace(text) ==
    LET gaps == {k \in 1..Len(text) : text[k] = " "}
    IN  IF gaps = {}
        THEN <<text>>
        ELSE LET g == CHOOSE a \in gaps : \A k \in gaps : a <= k
             IN  <<SubSeq(text, 1, g - 1)>> \o SplitSpace(SubSeq(text, g + 1, Len(text)))

\* a chunk of one column holding one token per row
SingleColumn(tokens) == [k \in 1..Len(tokens) |-> <<StrCell(tokens[k])>>]

CellTexts ==
    { <<>>, <<"a">>, <<"b">>, <<"a", " ", "b">>, <<" ", "a">>, <<" ">>,
      <<"n", "a", "n">>, <<" ", "n", "a", "n", " ">>, <<"N", "a", "N">> }

Cells == {NullCell} \cup {StrCell(t) : t \in CellTexts}

\* chunks of at most MaxFlatCells cells, every row of the same width
FlatChunks ==
    UNION { [1..r -> [1..c -> Cells]]
            : <<r, c>> \in { rc \in (1..MaxFlatCells) \X (1..MaxFlatCells)
                                : rc[1] * rc[2] <= MaxFlatCells } }

FlattenFirst ==
    /\ stage = "start"
    /\ flat1' = extract_non_null_data(chunk1)
    /\ text1' = JoinSpace(flat1')
    /\ stage' = "flat1"
    /\ UNCHANGED <<chunk1, chunk2, flat2, text2, pipeVars>>

\* The round trip of the idempotence property: the flattened text, split on
\* single spaces, becomes a chunk of one column (no code of the program).
Rebuild ==
    /\ stage = "flat1"
    /\ chunk2' = SingleColumn(SplitSpace(text1))
    /\ stage' = "rebuilt"
    /\ UNCHANGED <<chunk1, flat1, text1, flat2, text2, pipeVars>>

FlattenSecond ==
    /\ stage = "rebuilt"
    /\ flat2' = extract_non_null_data(chunk2)
    /\ text2' = JoinSpace(flat2')
    /\ stage' = "done"
    /\ UNCHANGED <<chunk1, flat1, text1, chunk2, pipeVars>>

InitFlat ==
    /\ pc = "off"
    /\ dirExists = FALSE
    /\ listing = <<>>
    /\ PipeStart
    /\ stage = "start"
    /\ chunk1 \in FlatChunks
    /\ flat1 = <<>>
    /\ text1 = <<>>
    /\ chunk2 = <<>>
    /\ flat2 = <<>>
    /\ text2 = <<>>

NextFlat ==
    \/ FlattenFirst
    \/ Rebuild
    \/ FlattenSecond

SpecFlat == InitFlat /\ [][NextFlat]_vars

----------------------------------------------------------------------------
(* Properties of the run of main (Spec) *)

RECURSIVE SumSeq(_)
SumSeq(q) == IF q = <<>> THEN 0 ELSE Head(q) + SumSeq(Tail(q))

RowsIn(c) == c.last - c.first + 1

\* the scan_chunk_with_llm call of the current chunk has ended
CallEnded == pc \in {"report", "except"} /\ outcomes # <<>>

AllTransport == outcomes # <<>> /\ \A j \in 1..Len(outcomes) : outcomes[j].kind = "transport"

ErrorStatus(o) == o.kind = "http" /\ o.status # 200

\* C1: the chunks the loop of process_file produces are consecutive row
\* ranges starting at row 0, none empty, each of CHUNK_SIZE rows except
\* possibly the last, which has between 1 and CHUNK_SIZE rows; when the loop
\* has run to its end they cover rows 0..N-1 (no chunk at all for N = 0).
C1_ChunksPartitionRows ==
    df >= 0 =>
        /\ \A k \in 1..Len(chunks) :
              /\ chunks[k].first = (IF k = 1 THEN 0 ELSE chunks[k - 1].last + 1)
              /\ RowsIn(chunks[k]) >= 1
              /\ RowsIn(chunks[k]) <= 1000
              /\ k < Len(chunks) => RowsIn(chunks[k]) = 1000
        /\ fileStatus = "completed" =>
              IF df = 0 THEN chunks = <<>> ELSE chunks[Len(chunks)].last = df - 1

\* a file of two chunks, the second shorter than the first, read to its end
C1_Witness ==
    /\ fileStatus = "completed"
    /\ Len(chunks) = 2
    /\ RowsIn(chunks[2]) < RowsIn(chunks[1])

C3_ErrorStatusNotRetried ==
    \A j \in 1..Len(outcomes) :
        ErrorStatus(outcomes[j]) =>
            /\ j = Len(outcomes)
            /\ posts = j
            /\ pc = "report"
            /\ result = None
            /\ Len(sleeps) = j - 1

\* an error status met on the first attempt
C3_Witness ==
    /\ pc = "report"
    /\ Len(outcomes) = 1
    /\ ErrorStatus(outcomes[1])

\* C4: a chunk whose Verdict is present gets the clean line when the Verdict
\* holds the marker and the flagged line with the whole Verdict when it does
\* not (the empty Verdict too); only an absent Verdict gets no line.
C4_EveryVerdictReported ==
    [][pc = "report" =>
         IF result.present
         THEN /\ Len(out') = Len(out) + 1
              /\ out'[Len(out')].kind =
                    (IF Contains(result.text, Marker) THEN "clean" ELSE "flagged")
              /\ out'[Len(out')].text =
                    (IF Contains(result.text, Marker) THEN <<>> ELSE result.text)
         ELSE out' = out]_vars

\* C5: after a failed probe the run is over: process_file was called for no
\* file, nothing was read, no POST was sent and the log has no
\* "Processing file" entry.
C5_FailedProbeTouchesNothing ==
    probe = "fail" =>
        /\ pc = "done"
        /\ opened = <<>>
        /\ content = NoContent
        /\ posts = 0
        /\ outcomes = <<>>
        /\ \A k \in 1..Len(log) : log[k].event # "processing"

\* the probe failed although the directory holds a file main would process
C5_Witness ==
    /\ probe = "fail"
    /\ \E k \in 1..Len(listing) : Supported(listing[k])

\* C6: once process_file has ended for a file whose table was loaded, every
\* chunk of the table was submitted, whatever happened while a chunk was
\* handled; and when the run ends after the probe, process_file was called
\* for every file of the list.
C6_ErrorsContained ==
    /\ (pc = "file_loop" /\ df >= 0 /\ fileStatus \in {"completed", "error"}) =>
          IF df = 0 THEN chunks = <<>>
          ELSE chunks # <<>> /\ chunks[Len(chunks)].last = df - 1
    /\ (pc = "done" /\ probe = "ok") => Len(opened) = Len(files)

\* the data rows of the file (counted from 0 after its header line) a chunk holds
DataRows(c) == [first |-> FileDataRow(c.first), last |-> FileDataRow(c.last)]

\* C7: a.csv with a header line and 1500 data rows gives exactly 2 chunks,
\* holding data rows 0..999 and 1000..1499 of the file.
C7_AllDataRowsChunked ==
    ( /\ path = JoinPath(DATA_FOLDER, <<"a">> \o ExtCsv)
      /\ content = [malformed |-> FALSE, lines |-> 1 + 1500]
      /\ fileStatus = "completed" ) =>
        /\ Len(chunks) = 2
        /\ DataRows(chunks[1]) = [first |-> 0, last |-> 999]
        /\ DataRows(chunks[2]) = [first |-> 1000, last |-> 1499]

\* C9: the row range a clean or flagged line shows is the row range of a
\* chunk of the file: first row and last row actually in the chunk.
C9_ShownRangeIsChunkRange ==
    \A n \in 1..Len(out) :
        out[n].kind \in {"clean", "flagged"} =>
            \E k \in 1..Len(chunks) :
                /\ chunks[k].first = out[n].first
                /\ chunks[k].last = out[n].last

\* C10: a call makes at most 5 POSTs and ends by returning (a Verdict or
\* None); when k transport failures are followed by a 200, it returns that
\* response's field after k+1 POSTs and a wait of delay*(1+...+k).
C10_RetryThenSuccess ==
    /\ posts <= 5
    /\ CallEnded =>
          /\ pc = "report"
          /\ LET n == Len(outcomes)
                 last == outcomes[n]
             IN  ( /\ last.kind = "http"
                   /\ last.status = 200
                   /\ \A j \in 1..(n - 1) : outcomes[j].kind = "transport" ) =>
                     /\ result = Some(ResponseField(last.body))
                     /\ posts = n
                     /\ 2 * SumSeq(sleeps) = Delay * (n - 1) * n

----------------------------------------------------------------------------
(* Property of the flattener (SpecFlat) *)

\* C8: flattening a chunk, splitting the text on single spaces, putting the
\* tokens in single-column rows and flattening those gives the same token
\* sequence as the first flattening, whatever the string cells hold.
C8_FlattenIdempotent ==
    stage = "done" => SplitSpace(text2) = SplitSpace(text1)

====
